---- MODULE Spec2Model ----
(***************************************************************************)
(* root_fdw: foreign-data wrapper exposing sharded ROOT files as foreign   *)
(* tables (src/root_fdw.c).  The model covers the shard registry           *)
(* (root_shard), option resolution, projection planning, size and cost     *)
(* estimation, and the scan callbacks driving the external ROOT cursor.    *)
(*                                                                         *)
(* Text is modelled as a sequence of one-character strings so that         *)
(* strcmp, strncmp, strcasecmp, strtok_r, strtod and sprintf are computed  *)
(* character by character, as the C library computes them.                 *)
(***************************************************************************)
EXTENDS Integers, Sequences, FiniteSets, TLC

\* a null object pointer, and a null char pointer (no text equals it)
NULL == 0
NullStr == <<"(null)">>

(***************************************************************************)
(* Bounds of the model.                                                    *)
(***************************************************************************)
\* planning calls (rootGetForeignRelSize) made by one backend process
MaxPlanCalls == 3
\* references in the target list of a planned query
MaxTargets == 2
\* planning calls of one backend process when every query is tried
MaxQueryPlans == 1
\* rows held by every external table
NRows == 2
\* rootIterateForeignScan calls per scan beyond the rows of the table
MaxExtraAdvance == 2
\* rootReScanForeignScan calls per scan
MaxReScan == 1
\* rootEndForeignScan calls per scan
MaxEndCalls == 2
\* largest row count get_root_table_approx_size reports
MaxApproxRows == 170

(***************************************************************************)
(* Program constants.                                                      *)
(***************************************************************************)
MAXSHARDS == 100
\* block size of the host (BLCKSZ), used by estimate_size
BLCKSZ == 8192
\* access/sysattr.h: offset applied by pull_varattnos to attribute numbers
FirstLowInvalidHeapAttributeNumber == -8
\* size of the line buffer of get_shard_contents
BufLen == 1024

\* the element of a one-element set; The({F(v) : v \in {e}}) is F(e) with e
\* computed once
The(S) == CHOOSE r \in S : TRUE

(***************************************************************************)
(* C strings.                                                              *)
(***************************************************************************)
Digits == <<"0", "1", "2", "3", "4", "5", "6", "7", "8", "9">>

IsDigit(c) == \E d \in 1..10 : Digits[d] = c

DigitVal(c) == (CHOOSE d \in 1..10 : Digits[d] = c) - 1

\* tolower() on the letters the catalog uses; other characters are unchanged
ToLower(c) ==
    CASE c = "X" -> "x"
      [] c = "Y" -> "y"
      [] c = "U" -> "u"
      [] c = "B" -> "b"
      [] c = "H" -> "h"
      [] OTHER -> c

\* strcasecmp(a, b) == 0
StrCaseEq(a, b) ==
    /\ Len(a) = Len(b)
    /\ \A i \in 1..Len(a) : ToLower(a[i]) = ToLower(b[i])

\* strncmp(s, prefix, Len(prefix)) == 0
StrNEq(s, prefix) ==
    /\ Len(s) >= Len(prefix)
    /\ SubSeq(s, 1, Len(prefix)) = prefix

RECURSIVE SkipWhile(_, _)
\* the suffix of s after its leading characters that belong to cs
SkipWhile(s, cs) ==
    IF s # <<>> /\ Head(s) \in cs THEN SkipWhile(Tail(s), cs) ELSE s

RECURSIVE TakeUntil(_, _)
\* the prefix of s before its first character that belongs to cs
TakeUntil(s, cs) ==
    IF s = <<>> \/ Head(s) \in cs THEN <<>>
    ELSE <<Head(s)>> \o TakeUntil(Tail(s), cs)

\* strtok_r(str, delim, &saveptr): the next token and the saved position,
\* tok = NullStr when only delimiters are left
StrTok(s, delim) ==
    LET start == SkipWhile(s, {delim})
        tok   == TakeUntil(start, {delim})
        after == SubSeq(start, Len(tok) + 1, Len(start))
    IN  IF start = <<>> THEN [tok |-> NullStr, save |-> <<>>]
        ELSE [tok |-> tok,
              save |-> IF after = <<>> THEN <<>> ELSE Tail(after)]

RECURSIVE DigitsValue(_, _)
\* value of the leading decimal digits of s, acc the value read so far
DigitsValue(s, acc) ==
    IF s # <<>> /\ IsDigit(Head(s))
    THEN DigitsValue(Tail(s), acc * 10 + DigitVal(Head(s)))
    ELSE acc

\* (int) strtod(s, NULL) for decimal text: leading blanks, an optional sign,
\* digits; the fraction is cut by the conversion to int, text that starts
\* with no number converts to 0
StrToInt(s) ==
    LET t    == SkipWhile(s, {" "})
        neg  == t # <<>> /\ Head(t) = "-"
        body == IF t # <<>> /\ Head(t) \in {"-", "+"} THEN Tail(t) ELSE t
        v    == DigitsValue(body, 0)
    IN  IF neg THEN 0 - v ELSE v

\* sprintf(buf, "%s_id", s)
WithIdSuffix(s) == s \o <<"_", "i", "d">>


(***************************************************************************)
(* Option names and the external attribute types (rootcursor.h).           *)
(***************************************************************************)
s_shard == <<"s", "h", "a", "r", "d">>
s_tree == <<"t", "r", "e", "e">>
s_collection == <<"c", "o", "l", "l", "e", "c", "t", "i", "o", "n">>
s_nattrs == <<"n", "a", "t", "t", "r", "s">>
s_attr_ == <<"a", "t", "t", "r", "_">>

\* get_root_type(atttype): the type tag named by the text of an attr_ option
get_root_type(atttype) ==
    CASE atttype = <<"i", "n", "t">> -> "RootInt"
      [] atttype = <<"u", "i", "n", "t">> -> "RootUInt"
      [] atttype = <<"f", "l", "o", "a", "t">> -> "RootFloat"
      [] atttype = <<"b", "o", "o", "l">> -> "RootBool"
      [] OTHER -> "RootInvalidType"

DefElem(name, arg) == [defname |-> name, arg |-> arg]

(***************************************************************************)
(* The catalog of the host: wrapper, servers, foreign tables and their     *)
(* tuple descriptors.  A column is [attname, attnum, attisdropped].        *)
(***************************************************************************)
Column(name, num, dropped) ==
    [attname |-> name, attnum |-> num, attisdropped |-> dropped]

s_hits == <<"h", "i", "t", "s">>
s_evt == <<"e", "v", "t">>
s_droppedcol == <<".", "p", "g", ".", "d", "r", "o", "p", "p", "e", "d", ".">>

WrapperOptions == <<>>

ServerOptions ==
    [srv0   |-> <<DefElem(s_shard, <<"0">>)>>,
     srv1   |-> <<DefElem(s_shard, <<"1">>)>>,
     srvMax |-> <<DefElem(s_shard, <<"1", "0", "0">>)>>,
     srvNeg |-> <<DefElem(s_shard, <<"-", "5">>)>>]

ForeignTables ==
    [hits |->
        [serverid |-> "srv0",
         options  |-> <<DefElem(s_tree, s_hits),
                        DefElem(s_nattrs, <<"2">>),
                        DefElem(s_attr_ \o <<"1">>, <<"x", ":", "i", "n", "t">>),
                        DefElem(s_attr_ \o <<"2">>,
                                <<"Y", ":", "f", "l", "o", "a", "t">>)>>,
         tupdesc  |-> <<Column(<<"x">>, 1, FALSE),
                        Column(s_droppedcol, 2, TRUE),
                        Column(<<"y">>, 3, FALSE)>>],
     evts |->
        [serverid |-> "srv1",
         options  |-> <<DefElem(s_tree, s_hits),
                        DefElem(s_collection, s_evt),
                        DefElem(s_nattrs, <<"2">>),
                        DefElem(s_attr_ \o <<"b">>, <<"b", ":", "b", "o", "o", "l">>),
                        DefElem(s_attr_ \o <<"u">>, <<"u", ":", "u", "i", "n", "t">>)>>,
         tupdesc  |-> <<Column(<<"U">>, 1, FALSE),
                        Column(WithIdSuffix(s_evt), 2, FALSE),
                        Column(<<"b">>, 3, FALSE),
                        Column(WithIdSuffix(s_hits), 4, FALSE)>>],
     far |->
        [serverid |-> "srvMax",
         options  |-> <<DefElem(s_tree, s_hits),
                        DefElem(s_nattrs, <<"1">>),
                        DefElem(s_attr_ \o <<"1">>, <<"x", ":", "i", "n", "t">>)>>,
         tupdesc  |-> <<Column(<<"x">>, 1, FALSE)>>],
     neg |->
        [serverid |-> "srvNeg",
         options  |-> <<DefElem(s_tree, s_hits),
                        DefElem(s_nattrs, <<"1">>),
                        DefElem(s_attr_ \o <<"1">>, <<"x", ":", "i", "n", "t">>)>>,
         tupdesc  |-> <<Column(<<"x">>, 1, FALSE)>>],
     extra |->
        [serverid |-> "srv0",
         options  |-> <<DefElem(s_tree, s_hits),
                        DefElem(s_nattrs, <<"1">>),
                        DefElem(s_attr_ \o <<"1">>, <<"x", ":", "i", "n", "t">>)>>,
         tupdesc  |-> <<Column(<<"x">>, 1, FALSE),
                        Column(<<"z">>, 2, FALSE)>>]]

TableIds == DOMAIN ForeignTables

(***************************************************************************)
(* rootGetOptions: the options of wrapper, server and table, in this       *)
(* order, folded into (shard, tree, schema, is_collection).                *)
(***************************************************************************)
RootAttr(name, type) == [attname |-> name, atttype |-> type]

NoOptions ==
    [shard |-> -1, tree |-> NullStr, schema |-> <<>>, is_collection |-> FALSE,
     collection |-> NullStr, nattrs |-> -1, status |-> "ok", errmsg |-> ""]

OptError(acc, msg) == [acc EXCEPT !.status = "ERROR", !.errmsg = msg]

\* one iteration of the foreach over the merged options
GetOption(acc, def) ==
    IF def.defname = s_shard THEN [acc EXCEPT !.shard = StrToInt(def.arg)]
    ELSE IF def.defname = s_tree THEN [acc EXCEPT !.tree = def.arg]
    ELSE IF def.defname = s_collection
    THEN [acc EXCEPT !.collection = def.arg, !.is_collection = TRUE]
    ELSE IF def.defname = s_nattrs THEN [acc EXCEPT !.nattrs = StrToInt(def.arg)]
    ELSE IF StrNEq(def.defname, s_attr_)
    THEN LET first  == StrTok(def.arg, ":")
             second == StrTok(first.save, ":")
         IN  IF first.tok = NullStr THEN OptError(acc, "invalid attribute name")
             ELSE IF second.tok = NullStr
             THEN OptError(acc, "invalid attribute type for option")
             ELSE IF get_root_type(second.tok) = "RootInvalidType"
             THEN OptError(acc, "invalid attribute type for field")
             ELSE [acc EXCEPT !.schema =
                       Append(@, RootAttr(first.tok, get_root_type(second.tok)))]
    ELSE acc

RECURSIVE GetOptionsLoop(_, _)
\* the foreach: an ereport(ERROR) leaves the loop at once
GetOptionsLoop(acc, options) ==
    IF options = <<>> \/ acc.status # "ok" THEN acc
    ELSE GetOptionsLoop(GetOption(acc, Head(options)), Tail(options))

\* the synthetic tree and collection identifiers appended to the schema
AddIdAttrs(parsed) ==
    IF parsed.status # "ok" THEN parsed
    \* strlen(*tree) with no tree option dereferences a null pointer
    ELSE IF parsed.tree = NullStr THEN [parsed EXCEPT !.status = "SIGSEGV"]
    ELSE [parsed EXCEPT !.schema =
             Append(@, RootAttr(WithIdSuffix(parsed.tree), "RootTreeId")) \o
             (IF parsed.is_collection
              THEN <<RootAttr(WithIdSuffix(parsed.collection), "RootCollectionId")>>
              ELSE <<>>)]

\* a defect of the validation: the shard id is not tested against its range
ValidateOptions_noShard(opt) ==
    IF opt.status # "ok" THEN opt
    ELSE IF opt.nattrs < 0
    THEN OptError(opt, "'nattrs' option contains an invalid number")
    ELSE IF Len(opt.schema) #
            (IF opt.is_collection THEN opt.nattrs + 2 ELSE opt.nattrs + 1)
    THEN OptError(opt, "mismatch between 'nattrs' option and attributes")
    ELSE opt

\* a defect of the validation: the schema is not counted against nattrs
ValidateOptions_noCount(opt) ==
    IF opt.status # "ok" THEN opt
    ELSE IF opt.shard < 0 \/ opt.shard >= MAXSHARDS
    THEN OptError(opt, "'shard' option refers to an unknown shard")
    ELSE IF opt.nattrs < 0
    THEN OptError(opt, "'nattrs' option contains an invalid number")
    ELSE opt

\* the run-time validation of shard and nattrs
ValidateOptions(opt) ==
    IF opt.status # "ok" THEN opt
    ELSE IF opt.shard < 0 \/ opt.shard >= MAXSHARDS
    THEN OptError(opt, "'shard' option refers to an unknown shard")
    ELSE IF opt.nattrs < 0
    THEN OptError(opt, "'nattrs' option contains an invalid number")
    ELSE IF Len(opt.schema) #
            (IF opt.is_collection THEN opt.nattrs + 2 ELSE opt.nattrs + 1)
    THEN OptError(opt, "mismatch between 'nattrs' option and attributes")
    ELSE opt

\* rootGetOptions on a merged option list
ResolveOptions(options) ==
    The({ValidateOptions(withIds) :
            withIds \in {AddIdAttrs(parsed) :
                            parsed \in {GetOptionsLoop(NoOptions, options)}}})

\* the merged options of every table of the catalog, resolved
TableOptions ==
    [t \in TableIds |->
        ResolveOptions(WrapperOptions \o ServerOptions[ForeignTables[t].serverid]
                           \o ForeignTables[t].options)]

rootGetOptions(foreigntableid) == TableOptions[foreigntableid]

(***************************************************************************)
(* get_shard_contents: the lines of the shard manifest.                    *)
(***************************************************************************)
\* text of the file shard-<n>.files under SHARDS_PATH
ManifestText(shard) ==
    IF shard = 0 THEN <<"a", "\n", "\n", "b">> ELSE <<"c", "\n">>

RECURSIVE LineEnd(_, _, _)
\* fgets(buf, 1024, f) reading text from index i: the index of the last
\* character stored, the next newline or the BufLen - 1 th character
LineEnd(text, i, k) ==
    IF k = Len(text) \/ text[k] = "\n" \/ k - i + 1 = BufLen - 1 THEN k
    ELSE LineEnd(text, i, k + 1)

RECURSIVE ReadLines(_, _, _)
\* the while (fgets ...) loop from index i of the file; acc is [fnames, n, siz]
ReadLines(text, i, acc) ==
    IF i > Len(text) THEN acc
    ELSE The({LET buf  == SubSeq(text, i, e)
                  name == TakeUntil(buf, {"\n"})
              IN  IF Len(name) = 0 THEN ReadLines(text, e + 1, acc)
                  ELSE ReadLines(text, e + 1,
                           [fnames |-> Append(acc.fnames, name),
                            n      |-> acc.n + 1,
                            siz    |-> IF acc.n = acc.siz
                                       THEN (IF acc.siz = 0 THEN 2 ELSE acc.siz * 2)
                                       ELSE acc.siz]) :
              e \in {LineEnd(text, i, i)}})

\* the file names of the manifests of the shards the catalog can name
ShardContents ==
    [shard \in {0, 1} |->
        ReadLines(ManifestText(shard), 1, [fnames |-> <<>>, n |-> 0, siz |-> 0])]

get_shard_contents(shard) == ShardContents[shard]

(***************************************************************************)
(* collect_attributes: the projection of a query on a foreign table.       *)
(***************************************************************************)
\* pull_varattnos: attribute numbers offset by FirstLowInvalidHeapAttributeNumber
pull_varattnos(attnos) ==
    {a - FirstLowInvalidHeapAttributeNumber : a \in attnos}

\* a defect of the collection: the restriction clauses are not visited
AttrsUsed_targets(baserel) == pull_varattnos(baserel.reltargetlist)

\* reltargetlist, then every clause of baserestrictinfo
AttrsUsed(baserel) ==
    pull_varattnos(baserel.reltargetlist) \cup
    UNION {pull_varattnos(baserel.baserestrictinfo[k].vars) :
               k \in 1..Len(baserel.baserestrictinfo)}

\* a defect of the position: the attribute number, not the tuple index
QueryAttrAt_attnum(rattr, attr) == [attr |-> rattr, pos |-> attr.attnum]

\* the QueryAttr of host column attr matched to schema entry rattr
QueryAttrAt(rattr, attr) == [attr |-> rattr, pos |-> attr.attnum - 1]

RECURSIVE FindRootAttr(_, _, _)
\* the inner foreach over the schema: the first entry whose name matches,
\* <<>> when none does
FindRootAttr(schema, k, attr) ==
    IF k > Len(schema) THEN <<>>
    ELSE IF StrCaseEq(schema[k].attname, attr.attname)
    THEN <<QueryAttrAt(schema[k], attr)>>
    ELSE FindRootAttr(schema, k + 1, attr)

\* a defect of the lookup: a column without schema entry is left out silently
MissingAttr_skipped(acc) == acc

\* qattr == NULL after the search of the schema: elog(ERROR)
MissingAttr(acc) ==
    [acc EXCEPT !.status = "ERROR",
                !.errmsg = "Failed to retrieve ROOT attribute"]

RECURSIVE CollectLoop(_, _, _, _, _)
\* the for (i = 1; i <= natts; i++) loop; elog(ERROR) leaves it at once
CollectLoop(tupdesc, i, has_wholerow, attrs_used, acc) ==
    IF i > Len(tupdesc) \/ acc.status # "ok" THEN acc
    ELSE LET attr  == tupdesc[i]
             qattr == FindRootAttr(acc.schema, 1, attr)
         IN  IF attr.attisdropped
             THEN CollectLoop(tupdesc, i + 1, has_wholerow, attrs_used, acc)
             ELSE IF has_wholerow \/
                     (i - FirstLowInvalidHeapAttributeNumber) \in attrs_used
             THEN IF qattr = <<>>
                  THEN MissingAttr(acc)
                  ELSE CollectLoop(tupdesc, i + 1, has_wholerow, attrs_used,
                                   [acc EXCEPT !.attrs = Append(@, qattr[1])])
             ELSE CollectLoop(tupdesc, i + 1, has_wholerow, attrs_used, acc)

collect_attributes(baserel, fdw_private, foreigntableid) ==
    LET attrs_used   == AttrsUsed(baserel)
        has_wholerow == (0 - FirstLowInvalidHeapAttributeNumber) \in attrs_used
    IN  CollectLoop(ForeignTables[foreigntableid].tupdesc, 1, has_wholerow,
                    attrs_used,
                    [attrs |-> <<>>, schema |-> fdw_private.schema,
                     status |-> "ok", errmsg |-> ""])

(***************************************************************************)
(* estimate_size and estimate_costs.  Costs are counted in thousandths of  *)
(* the host's cost unit; a selectivity is a fraction <<num, den>>.         *)
(***************************************************************************)
\* seq_page_cost (1.0) and cpu_tuple_cost * 1.5 (0.01 * 1.5) of the host
SeqPageCost == 1000
CpuTupleCost15 == 15

\* rint(num / den): to the nearest integer, ties to the even one
Rint(num, den) ==
    LET q == num \div den
        r == num % den
    IN  IF 2 * r < den THEN q
        ELSE IF 2 * r > den THEN q + 1
        ELSE IF q % 2 = 0 THEN q ELSE q + 1

\* clamp_row_est(num / den) of the host
clamp_row_est(num, den) == IF num <= den THEN 1 ELSE Rint(num, den)

RECURSIVE ClauseSelectivity(_, _)
\* clauselist_selectivity: the product of the clauses' selectivities
ClauseSelectivity(clauses, k) ==
    IF k > Len(clauses) THEN <<1, 1>>
    ELSE LET rest == ClauseSelectivity(clauses, k + 1)
         IN  <<clauses[k].sel[1] * rest[1], clauses[k].sel[2] * rest[2]>>

RECURSIVE RestrictCost(_, _)
\* baserel->baserestrictcost: startup and per-tuple cost summed over the clauses
RestrictCost(clauses, k) ==
    IF k > Len(clauses) THEN [startup |-> 0, per_tuple |-> 0]
    ELSE LET rest == RestrictCost(clauses, k + 1)
         IN  [startup |-> clauses[k].startup + rest.startup,
              per_tuple |-> clauses[k].per_tuple + rest.per_tuple]

\* a defect of the rounding: the bytes of a partly filled block are not counted
EstimatePages_floor(ntuples) ==
    IF (ntuples * 100) \div BLCKSZ < 1 THEN 1 ELSE (ntuples * 100) \div BLCKSZ

\* the page estimate: (ntuples * 100 + (BLCKSZ - 1)) / BLCKSZ cut to a
\* BlockNumber, at least 1
EstimatePages(ntuples) ==
    LET fsize == ntuples * 100
        pages == (fsize + (BLCKSZ - 1)) \div BLCKSZ
    IN  IF pages < 1 THEN 1 ELSE pages

\* estimate_size, ntuples being get_root_table_approx_size(root_table)
estimate_size(baserel, ntuples) ==
    LET sel == ClauseSelectivity(baserel.baserestrictinfo, 1)
    IN  [ntuples |-> ntuples,
         pages   |-> EstimatePages(ntuples),
         rows    |-> clamp_row_est(ntuples * sel[1], sel[2])]

\* a defect of the run cost: the filtered row estimate is charged
estimate_costs_rows(baserel, fdw_private) ==
    LET cost          == RestrictCost(baserel.baserestrictinfo, 1)
        cpu_per_tuple == CpuTupleCost15 + cost.per_tuple
        run_cost      == SeqPageCost * fdw_private.pages +
                         cpu_per_tuple * baserel.rows
    IN  [startup_cost |-> cost.startup,
         total_cost   |-> cost.startup + run_cost]

estimate_costs(baserel, fdw_private) ==
    LET cost          == RestrictCost(baserel.baserestrictinfo, 1)
        cpu_per_tuple == CpuTupleCost15 + cost.per_tuple
        run_cost      == SeqPageCost * fdw_private.pages +
                         cpu_per_tuple * fdw_private.ntuples
    IN  [startup_cost |-> cost.startup,
         total_cost   |-> cost.startup + run_cost]

(***************************************************************************)
(* Inputs of a planning call: the query on the table and what the          *)
(* environment and the ROOT library answer.                                *)
(***************************************************************************)
\* attribute numbers a query can reference: ctid (-1), the whole row (0) and
\* the columns that are not dropped
RefAttnos(t) ==
    {-1, 0} \cup {i \in 1..Len(ForeignTables[t].tupdesc) :
                     ~ForeignTables[t].tupdesc[i].attisdropped}

RestrictInfo(vars, sel, startup, per_tuple) ==
    [vars |-> vars, sel |-> sel, startup |-> startup, per_tuple |-> per_tuple]

\* restriction clauses on one column
Clauses(t) ==
    {RestrictInfo({a}, <<1, 2>>, 0, 25) : a \in RefAttnos(t) \ {0}}

\* the queries planned on table t: a target list of at most MaxTargets
\* references and at most one restriction clause
Queries(t) ==
    {[reltargetlist |-> tl, baserestrictinfo |-> ri] :
        tl \in {x \in SUBSET RefAttnos(t) : Cardinality(x) <= MaxTargets},
        ri \in {<<>>} \cup {<<c>> : c \in Clauses(t)}}

\* SELECT t FROM t, and the queries of Spec: the whole row or the first column
WholeRowQuery == [reltargetlist |-> {0}, baserestrictinfo |-> <<>>]

SampleQueries(t) ==
    {q \in Queries(t) :
        q.reltargetlist \in {{0}, {1}} /\ q.baserestrictinfo = <<>>}

\* answers of get_root_table_approx_size
ApproxRowCounts == {0, 82}

s_path == <<"/", "s">>

ShardIds == 0..(MAXSHARDS - 1)

NoError == [elevel |-> "none", msg |-> ""]
Error(level, msg) == [elevel |-> level, msg |-> msg]

(***************************************************************************)
(* State.                                                                  *)
(***************************************************************************)
VARIABLES
    env,            \* getenv("SHARDS_PATH"): a path or NullStr
    ShardPath,      \* static char *ShardPath
    root_shard,     \* static Root *root_shard[MAXSHARDS]: index into roots, or NULL
    roots,          \* the Root objects init_root has returned, in order
    manifestReads,  \* per shard, how often its manifest has been opened and read
    planCalls,      \* number of rootGetForeignRelSize calls so far
    baserel,        \* <<>> or <<r>>, r the RelOptInfo of the statement being planned
    plan,           \* <<>> or <<p>>, p the ForeignScan node of the planned statement
    error,          \* what the last callback reported with ereport/elog
    backend,        \* "running", "exited" (FATAL), "crashed" or "corrupted"
    scans,          \* per scan node: fdw_state, the scan tuple slot, call counts
    cursors,        \* the RootCursor objects of the library, in order of creation
    created,        \* per catalog, <<>> or <<options>> of the object created in it
    resolved,       \* <<>> or <<r>>, r what rootGetOptions made of the created table
    planners        \* per planning thread: its position in rootGetForeignRelSize

vars == <<env, ShardPath, root_shard, roots, manifestReads, planCalls,
          baserel, plan, error, backend, scans, cursors, created, resolved,
          planners>>

\* the catalogs root_fdw_validator is called for
Catalogs ==
    {"ForeignDataWrapperRelationId", "ForeignServerRelationId",
     "ForeignTableRelationId"}

\* the threads of a host that plans in more than one thread
Planners == {1, 2}

\* a thread outside rootGetForeignRelSize
IdlePlanner == [pc |-> "idle", table |-> "hits", shard |-> -1, root |-> NULL]

\* the scan nodes of the executed plan (two scans of one plan, as in a self join)
ScanNodes == {"outer", "inner"}

\* a scan node before ExecInitForeignScan
NoScan ==
    [state |-> "unopened", fdw_state |-> <<>>, root_cursor |-> NULL,
     tts_values |-> <<>>, tts_isnull |-> <<>>, tts_isempty |-> TRUE,
     storedRow |-> 0,
     iterCalls |-> 0, sinceReScan |-> 0, rescans |-> 0, endCalls |-> 0]

\* _PG_init: every root_shard entry is NULL; nothing planned or scanned yet
Init ==
    /\ env \in {NullStr, s_path}
    /\ ShardPath = NullStr
    /\ root_shard = [i \in ShardIds |-> NULL]
    /\ roots = <<>>
    /\ manifestReads = [i \in ShardIds |-> 0]
    /\ planCalls = 0
    /\ baserel = <<>>
    /\ plan = <<>>
    /\ error = NoError
    /\ backend = "running"
    /\ scans = [n \in ScanNodes |-> NoScan]
    /\ cursors = <<>>
    /\ created = [c \in Catalogs |-> <<>>]
    /\ resolved = <<>>
    /\ planners = [p \in Planners |-> IdlePlanner]

(***************************************************************************)
(* Planning callbacks.                                                     *)
(***************************************************************************)
\* a defect of the cache test: the entry is never found
ShardCached_never(shard) == FALSE

\* !root_shard[shard] is false: the shard has a Root already
ShardCached(shard) == root_shard[shard] # NULL

\* a defect of the registry: a Root that failed to initialize is kept
init_root_stale(initOk, newRoot) == newRoot

\* init_root(fnames, n): the new Root, or NULL when it fails
init_root(initOk, newRoot) == IF initOk THEN newRoot ELSE NULL

\* get_root_table(root, tree, is_collection)
get_root_table(root, tree, is_collection) ==
    [root |-> root, tree |-> tree, is_collection |-> is_collection]

\* RelOptInfo of table t for query q once rootGetForeignRelSize has returned
RelOptInfo(t, q, opt, root, ntuples) ==
    LET size == estimate_size(q, ntuples)
    IN  [foreigntableid   |-> t,
         reltargetlist    |-> q.reltargetlist,
         baserestrictinfo |-> q.baserestrictinfo,
         rows             |-> size.rows,
         pathlist         |-> <<>>,
         fdw_private      |->
            [shard |-> opt.shard, tree |-> opt.tree, schema |-> opt.schema,
             is_collection |-> opt.is_collection,
             root_table |-> get_root_table(root, opt.tree, opt.is_collection),
             pages |-> size.pages, ntuples |-> size.ntuples]]

\* rootGetForeignRelSize for query q on table t.  fileOk: AllocateFile opens
\* the manifest; initOk: init_root returns a Root; found: get_root_table
\* finds the tree; ntuples: get_root_table_approx_size.  The backend plans
\* one statement at a time: the plan of the statement before is dropped, and
\* an ereport(ERROR) drops the relation being planned.
rootGetForeignRelSize(t, q, fileOk, initOk, found, ntuples) ==
    LET opt    == rootGetOptions(t)
        shard  == opt.shard
        path   == IF ShardPath = NullStr THEN env ELSE ShardPath
        fnames == get_shard_contents(shard)
        cached == ShardCached(shard)
        root   == IF cached THEN root_shard[shard] ELSE Len(roots) + 1
    IN  /\ backend = "running"
        /\ planCalls' = planCalls + 1
        /\ plan' = <<>>
        /\ UNCHANGED <<env, scans, cursors, created, resolved, planners>>
        /\ IF opt.status = "SIGSEGV"
           THEN /\ backend' = "crashed"
                /\ UNCHANGED <<ShardPath, root_shard, roots, manifestReads,
                               baserel, error>>
           ELSE IF opt.status = "ERROR"
           THEN /\ error' = Error("ERROR", opt.errmsg)
                /\ baserel' = <<>>
                /\ UNCHANGED <<ShardPath, root_shard, roots, manifestReads,
                               backend>>
           ELSE IF path = NullStr
           THEN /\ error' = Error("ERROR", "SHARDS_PATH environment variable required")
                /\ baserel' = <<>>
                /\ UNCHANGED <<ShardPath, root_shard, roots, manifestReads,
                               backend>>
           ELSE IF ~fileOk
           THEN /\ error' = Error("FATAL", "could not open file")
                /\ backend' = "exited"
                /\ ShardPath' = path
                /\ baserel' = <<>>
                /\ UNCHANGED <<root_shard, roots, manifestReads>>
           \* root_shard[shard] with shard outside the array is undefined: the
           \* backend crashes or goes on with memory that is not a Root
           ELSE IF shard \notin ShardIds
           THEN /\ backend' \in {"crashed", "corrupted"}
                /\ ShardPath' = path
                /\ baserel' = <<>>
                /\ UNCHANGED <<root_shard, roots, manifestReads, error>>
           ELSE /\ ShardPath' = path
                /\ manifestReads' = [manifestReads EXCEPT ![shard] = @ + 1]
                /\ UNCHANGED backend
                /\ IF ~cached /\ ~initOk
                   THEN /\ error' = Error("ERROR", "failed to initialize ROOT's shard")
                        /\ baserel' = <<>>
                        /\ root_shard' = [root_shard EXCEPT ![shard] =
                                             init_root(initOk, root)]
                        /\ UNCHANGED roots
                   ELSE /\ root_shard' = [root_shard EXCEPT ![shard] =
                                             IF cached THEN root
                                             ELSE init_root(initOk, root)]
                        /\ roots' = IF cached THEN roots
                                    ELSE Append(roots,
                                                [shard |-> shard,
                                                 fnames |-> fnames.fnames,
                                                 n |-> fnames.n])
                        /\ IF ~found
                           THEN /\ error' = Error("ERROR", "'name' option refers to an unknown table")
                                /\ baserel' = <<>>
                           ELSE /\ error' = NoError
                                /\ baserel' = <<RelOptInfo(t, q, opt, root, ntuples)>>

\* rootGetForeignPaths: the single path of the relation, its fdw_private
\* being list_make2(root_table, attrs)
rootGetForeignPaths ==
    /\ backend = "running"
    /\ baserel # <<>>
    /\ baserel[1].pathlist = <<>>
    /\ LET rel   == baserel[1]
           attrs == collect_attributes(rel, rel.fdw_private, rel.foreigntableid)
           costs == estimate_costs(rel, rel.fdw_private)
       IN  IF attrs.status = "ERROR"
           THEN /\ error' = Error("ERROR", attrs.errmsg)
                /\ baserel' = <<>>
           ELSE /\ error' = NoError
                /\ baserel' =
                     <<[rel EXCEPT !.pathlist =
                          <<[rows |-> rel.rows,
                             startup_cost |-> costs.startup_cost,
                             total_cost |-> costs.total_cost,
                             fdw_private |-> <<rel.fdw_private.root_table,
                                               attrs.attrs>>]>>]>>
    /\ UNCHANGED <<env, ShardPath, root_shard, roots, manifestReads, planCalls,
                   plan, backend, scans, cursors, created, resolved, planners>>

\* rootGetForeignPlan: the ForeignScan node carries best_path->fdw_private;
\* planning of the statement is over
rootGetForeignPlan ==
    /\ backend = "running"
    /\ baserel # <<>>
    /\ baserel[1].pathlist # <<>>
    /\ plan' = <<[foreigntableid |-> baserel[1].foreigntableid,
                  fdw_private |-> baserel[1].pathlist[1].fdw_private]>>
    /\ baserel' = <<>>
    /\ error' = NoError
    /\ UNCHANGED <<env, ShardPath, root_shard, roots, manifestReads, planCalls,
                   backend, scans, cursors, created, resolved, planners>>

\* a planning call of the backend, at most max of them, for a query of QS[t];
\* a call that fails before it looks at the query is made with one query only
GetForeignRelSize(QS, max) ==
    /\ planCalls < max
    /\ \E t \in TableIds :
         \E fileOk \in BOOLEAN, initOk \in BOOLEAN, found \in BOOLEAN :
            LET reached == rootGetOptions(t).status = "ok" /\ fileOk /\ initOk /\ found
            IN  \E q \in IF reached THEN QS[t] ELSE {WholeRowQuery} :
                  \E ntuples \in IF reached THEN ApproxRowCounts ELSE {0} :
                     rootGetForeignRelSize(t, q, fileOk, initOk, found, ntuples)

(***************************************************************************)
(* Spec: a backend that plans up to MaxPlanCalls statements, each on one   *)
(* of a few queries per table.                                             *)
(***************************************************************************)
Next ==
    \/ GetForeignRelSize([t \in TableIds |-> SampleQueries(t)], MaxPlanCalls)
    \/ rootGetForeignPaths
    \/ rootGetForeignPlan

Spec == Init /\ [][Next]_vars

(***************************************************************************)
(* SpecQuery: a backend that plans up to MaxQueryPlans statements, on any  *)
(* query of Queries.                                                       *)
(***************************************************************************)
NextQuery ==
    \/ GetForeignRelSize([t \in TableIds |-> Queries(t)], MaxQueryPlans)
    \/ rootGetForeignPaths
    \/ rootGetForeignPlan

SpecQuery == Init /\ [][NextQuery]_vars

(***************************************************************************)
(* SpecEstimate: a backend plans statements with restriction clauses of    *)
(* several costs and selectivities on a table for which the ROOT library   *)
(* reports any row count up to MaxApproxRows.                              *)
(***************************************************************************)
\* at most two clauses on the first column
EstimateClauses ==
    LET c1 == RestrictInfo({1}, <<1, 2>>, 0, 25)
        c2 == RestrictInfo({1}, <<1, 3>>, 7, 0)
    IN  {<<>>, <<c1>>, <<c2>>, <<c1, c2>>}

EstimateQueries ==
    {[reltargetlist |-> {1}, baserestrictinfo |-> ri] : ri \in EstimateClauses}

\* a table that can be planned and one whose options fail to resolve
EstimateTables == {"hits", "far"}

EstimateRelSize ==
    /\ planCalls < MaxQueryPlans
    /\ \E t \in EstimateTables :
         \E fileOk \in BOOLEAN, initOk \in BOOLEAN, found \in BOOLEAN :
            LET reached == rootGetOptions(t).status = "ok" /\ fileOk /\ initOk /\ found
            IN  \E q \in IF reached THEN EstimateQueries ELSE {WholeRowQuery} :
                  \E ntuples \in IF reached THEN 0..MaxApproxRows ELSE {0} :
                     rootGetForeignRelSize(t, q, fileOk, initOk, found, ntuples)

NextEstimate ==
    \/ EstimateRelSize
    \/ rootGetForeignPaths
    \/ rootGetForeignPlan

SpecEstimate == Init /\ [][NextEstimate]_vars

(***************************************************************************)
(* The ROOT cursor library and the Datum macros of the host.               *)
(***************************************************************************)
\* the value the table holds for an attribute on a row (rows count from 1)
CellValue(attname, row) ==
    CASE attname = <<"x">> -> 0 - (row * 10 + 1)
      [] attname = <<"Y">> -> row * 10 + 2
      [] attname = <<"b">> -> row % 2
      [] attname = <<"u">> -> row * 10 + 4
      [] attname = WithIdSuffix(s_hits) -> row * 10 + 5
      [] attname = WithIdSuffix(s_evt) -> row * 10 + 6
      [] OTHER -> 0

\* a Datum: the macro that made it and the C value it was made from (each
\* macro is one-to-one on the range of its argument type)
Datum(macro, word) == [macro |-> macro, word |-> word]

\* what palloc'd slot memory holds before anything is stored in it
GarbageDatum == Datum("uninitialized", 0)

\* the Datum stored for a value of the given type tag (switch of
\* rootIterateForeignScan); only the six types below have a case
TypedDatum(type, v) ==
    CASE type = "RootTreeId" -> Datum("Int64GetDatum", v)
      [] type = "RootCollectionId" -> Datum("Int32GetDatum", v)
      [] type = "RootInt" -> Datum("Int32GetDatum", v)
      [] type = "RootUInt" -> Datum("UInt32GetDatum", v)
      [] type = "RootFloat" -> Datum("Float8GetDatum", v)
      [] type = "RootBool" -> Datum("BoolGetDatum", IF v # 0 THEN 1 ELSE 0)

HandledTypes ==
    {"RootTreeId", "RootCollectionId", "RootInt", "RootUInt", "RootFloat",
     "RootBool"}

\* init_root_cursor(root_table, nattrs): a cursor before any row
NewCursor(root_table, nattrs) ==
    [root_table |-> root_table, nattrs |-> nattrs,
     attrs |-> [i \in 0..(nattrs - 1) |-> <<>>],
     opened |-> FALSE, row |-> 0, advances |-> 0, finis |-> 0]

\* a defect of the registration: every attribute goes to index 0
SetCursorAttr_first(cursor, i, rattr) ==
    [cursor EXCEPT !.attrs[0] = Append(@, rattr)]

\* set_root_cursor_attr(cursor, i, attname, atttype)
SetCursorAttr(cursor, i, rattr) ==
    [cursor EXCEPT !.attrs[i] = Append(@, rattr)]

RECURSIVE RegisterAttrs(_, _, _, _)
\* the foreach of rootBeginForeignScan up to (not including) index limit
RegisterAttrs(cursor, attrs, i, limit) ==
    IF i >= limit THEN cursor
    ELSE The({RegisterAttrs(next, attrs, i + 1, limit) :
                 next \in {SetCursorAttr(cursor, i, attrs[i + 1].attr)}})

\* a defect of the library: every scan is handed the first cursor
CursorHandle_shared(cs) == 1

\* the RootCursor init_root_cursor returns: a new object
CursorHandle(cs) == Len(cs) + 1

\* advance_root_cursor: whether the cursor has a next row
HasNextRow(cursor) == cursor.row < NRows

\* a defect of the slot index: the fetch index is used, not pos[i]
TuplePos_fetchIndex(pos, i) == i

\* int p = pos[i]
TuplePos(pos, i) == pos[i]

\* a defect of the store: the null flags of the whole row are reset first
StoreAttr_resetsRow(cursor, pos, i, type, slot) ==
    [values |-> IF type \in HandledTypes
                THEN [slot.values EXCEPT ![pos[i]] =
                        TypedDatum(type, CellValue(cursor.attrs[i][1].attname,
                                                   cursor.row))]
                ELSE slot.values,
     nulls  |-> [q \in DOMAIN slot.nulls |-> q # pos[i]],
     ok     |-> type \in HandledTypes]

\* one iteration of the for loop of rootIterateForeignScan, type being
\* get_root_cursor_attr_type(root_cursor, i); slot is [values, nulls, ok]
StoreAttr(cursor, pos, i, type, slot) ==
    LET p == TuplePos(pos, i)
    IN  IF type \in HandledTypes
        THEN [values |-> [slot.values EXCEPT ![p] =
                            TypedDatum(type,
                                       CellValue(cursor.attrs[i][1].attname,
                                                 cursor.row))],
              nulls  |-> [slot.nulls EXCEPT ![p] = FALSE],
              ok     |-> TRUE]
        ELSE [values |-> slot.values,
              nulls  |-> [slot.nulls EXCEPT ![p] = FALSE],
              ok     |-> FALSE]

RECURSIVE FillSlot(_, _, _, _, _)
\* the for (i = 0; i < nattrs; i++) loop; the library reports an invalid type
\* for index bad (none when bad = -1), and elog(ERROR) leaves the loop
FillSlot(cursor, pos, i, bad, slot) ==
    IF i >= cursor.nattrs \/ ~slot.ok THEN slot
    ELSE The({FillSlot(cursor, pos, i + 1, bad, next) :
                 next \in {StoreAttr(cursor, pos, i,
                                     IF i = bad THEN "RootInvalidType"
                                     ELSE cursor.attrs[i][1].atttype,
                                     slot)}})

\* a defect of the store: the tuple is stored whether or not there is a row
SlotEmpty_never(hasRow, filled) == FALSE

\* tts_isempty when rootIterateForeignScan returns: ExecClearTuple empties the
\* slot and ExecStoreVirtualTuple runs only after a row was filled in
SlotEmpty(hasRow, filled) == ~(hasRow /\ filled)

(***************************************************************************)
(* Execution callbacks on scan node n of the plan.                         *)
(***************************************************************************)
PlanAttrs == plan[1].fdw_private[2]

TupleWidth == Len(ForeignTables[plan[1].foreigntableid].tupdesc)

\* rootBeginForeignScan.  garbage: what the tts_isnull array of the new slot
\* holds; initOk: init_root_cursor returns a cursor; failAt: the index at
\* which set_root_cursor_attr fails (nattrs when it never does); openOk:
\* open_root_cursor succeeds.
rootBeginForeignScan(n, garbage, initOk, failAt, openOk) ==
    LET root_table == plan[1].fdw_private[1]
        attrs      == plan[1].fdw_private[2]
        nattrs     == Len(attrs)
        c          == CursorHandle(cursors)
        cursor     == RegisterAttrs(NewCursor(root_table, nattrs), attrs, 0, failAt)
        slot       == [scans[n] EXCEPT
                          !.tts_values = [p \in 0..(TupleWidth - 1) |-> GarbageDatum],
                          !.tts_isnull = garbage]
    IN  /\ backend = "running"
        /\ plan # <<>>
        /\ scans[n].state = "unopened"
        /\ UNCHANGED <<env, ShardPath, root_shard, roots, manifestReads,
                       planCalls, baserel, plan, backend, created, resolved,
                       planners>>
        /\ IF ~initOk
           THEN /\ error' = Error("ERROR", "failed to initialize ROOT's cursor")
                /\ scans' = [scans EXCEPT ![n] = [slot EXCEPT !.state = "aborted"]]
                /\ UNCHANGED cursors
           ELSE IF failAt < nattrs
           THEN /\ error' = Error("ERROR", "failed to add attribute to ROOT cursor")
                /\ cursors' = Append(cursors, cursor)
                /\ scans' = [scans EXCEPT ![n] =
                                [slot EXCEPT !.state = "aborted", !.root_cursor = c]]
           ELSE IF ~openOk
           THEN /\ error' = Error("ERROR", "failed to open ROOT cursor")
                /\ cursors' = Append(cursors, cursor)
                /\ scans' = [scans EXCEPT ![n] =
                                [slot EXCEPT !.state = "aborted", !.root_cursor = c]]
           ELSE /\ error' = NoError
                /\ cursors' = Append(cursors, [cursor EXCEPT !.opened = TRUE])
                /\ scans' = [scans EXCEPT ![n] =
                                [slot EXCEPT
                                    !.state = "open",
                                    !.root_cursor = c,
                                    !.fdw_state =
                                        <<[root_cursor |-> c,
                                           pos |-> [i \in 0..(nattrs - 1) |->
                                                       attrs[i + 1].pos],
                                           nattrs |-> nattrs]>>]]

\* rootIterateForeignScan; bad: the index for which the library reports a
\* type without a case in the switch (-1: none)
rootIterateForeignScan(n, bad) ==
    /\ backend = "running"
    /\ scans[n].state = "open"
    /\ LET festate == scans[n].fdw_state[1]
           c       == festate.root_cursor
           hasRow  == HasNextRow(cursors[c])
           cursor  == [cursors[c] EXCEPT
                          !.row = IF hasRow THEN @ + 1 ELSE @,
                          !.advances = @ + 1]
           filled  == IF hasRow
                      THEN FillSlot(cursor, festate.pos, 0, bad,
                                    [values |-> scans[n].tts_values,
                                     nulls |-> scans[n].tts_isnull,
                                     ok |-> TRUE])
                      ELSE [values |-> scans[n].tts_values,
                            nulls |-> scans[n].tts_isnull,
                            ok |-> TRUE]
       IN  \E slot \in {filled} :
             /\ cursors' = [cursors EXCEPT ![c] = cursor]
             /\ error' = IF slot.ok THEN NoError
                         ELSE Error("ERROR", "ROOT invalid type found")
             /\ scans' = [scans EXCEPT ![n] =
                            [@ EXCEPT
                               !.state = IF slot.ok THEN "open" ELSE "aborted",
                               !.tts_values = slot.values,
                               !.tts_isnull = slot.nulls,
                               !.tts_isempty = SlotEmpty(hasRow, slot.ok),
                               !.storedRow = IF SlotEmpty(hasRow, slot.ok)
                                             THEN 0 ELSE cursor.row,
                               !.iterCalls = @ + 1,
                               !.sinceReScan = @ + 1]]
    /\ UNCHANGED <<env, ShardPath, root_shard, roots, manifestReads, planCalls,
                   baserel, plan, backend, created, resolved, planners>>

\* a defect of the rescan: the projection list of the plan is emptied
rootReScanForeignScan_resetsPlan(n) ==
    /\ backend = "running"
    /\ scans[n].state = "open"
    /\ scans' = [scans EXCEPT ![n] = [@ EXCEPT !.rescans = @ + 1,
                                                !.sinceReScan = 0]]
    /\ plan' = <<[plan[1] EXCEPT !.fdw_private = <<@[1], <<>>>>]>>
    /\ error' = NoError
    /\ UNCHANGED <<env, ShardPath, root_shard, roots, manifestReads, planCalls,
                   baserel, backend, cursors, created, resolved, planners>>

\* rootReScanForeignScan: the body is empty
rootReScanForeignScan(n) ==
    /\ backend = "running"
    /\ scans[n].state = "open"
    /\ scans' = [scans EXCEPT ![n] = [@ EXCEPT !.rescans = @ + 1,
                                                !.sinceReScan = 0]]
    /\ error' = NoError
    /\ UNCHANGED <<env, ShardPath, root_shard, roots, manifestReads, planCalls,
                   baserel, plan, backend, cursors, created, resolved, planners>>

\* rootEndForeignScan: fini_root_cursor(festate->root_cursor).  Releasing a
\* cursor that is already released is undefined: the backend may crash
\* (crash) or carry on.
rootEndForeignScan(n, crash) ==
    /\ backend = "running"
    /\ scans[n].state \in {"open", "closed"}
    /\ LET c == scans[n].fdw_state[1].root_cursor
       IN  /\ cursors' = [cursors EXCEPT ![c] = [@ EXCEPT !.finis = @ + 1]]
           /\ backend' = IF cursors[c].finis >= 1 /\ crash THEN "crashed"
                         ELSE "running"
    /\ scans' = [scans EXCEPT ![n] = [@ EXCEPT !.state = "closed",
                                                !.endCalls = @ + 1]]
    /\ error' = NoError
    /\ UNCHANGED <<env, ShardPath, root_shard, roots, manifestReads, planCalls,
                   baserel, plan, created, resolved, planners>>

(***************************************************************************)
(* SpecScan: a backend that has planned one statement executes its plan    *)
(* on one scan node.                                                       *)
(***************************************************************************)
\* the state after rootGetForeignRelSize, rootGetForeignPaths and
\* rootGetForeignPlan have succeeded once in a new backend
InitScan ==
    \E t \in TableIds : \E q \in Queries(t) : \E ntuples \in ApproxRowCounts :
        LET opt   == rootGetOptions(t)
            rel   == RelOptInfo(t, q, opt, 1, ntuples)
            attrs == collect_attributes(rel, rel.fdw_private, t)
            files == get_shard_contents(opt.shard)
        IN  /\ opt.status = "ok"
            /\ attrs.status = "ok"
            /\ env = s_path
            /\ ShardPath = s_path
            /\ root_shard = [i \in ShardIds |-> IF i = opt.shard THEN 1 ELSE NULL]
            /\ roots = <<[shard |-> opt.shard, fnames |-> files.fnames,
                          n |-> files.n]>>
            /\ manifestReads = [i \in ShardIds |-> IF i = opt.shard THEN 1 ELSE 0]
            /\ planCalls = 1
            /\ baserel = <<>>
            /\ plan = <<[foreigntableid |-> t,
                         fdw_private |-> <<rel.fdw_private.root_table, attrs.attrs>>]>>
            /\ error = NoError
            /\ backend = "running"
            /\ scans = [n \in ScanNodes |-> NoScan]
            /\ cursors = <<>>
            /\ created = [c \in Catalogs |-> <<>>]
            /\ resolved = <<>>
            /\ planners = [p \in Planners |-> IdlePlanner]

BeginForeignScan(n) ==
    \E initOk \in BOOLEAN, openOk \in BOOLEAN : \E failAt \in 0..Len(PlanAttrs) :
        LET opens == initOk /\ openOk /\ failAt = Len(PlanAttrs)
        IN  \E garbage \in IF opens THEN [0..(TupleWidth - 1) -> BOOLEAN]
                           ELSE {[p \in 0..(TupleWidth - 1) |-> TRUE]} :
               rootBeginForeignScan(n, garbage, initOk, failAt, openOk)

IterateForeignScan(n) ==
    /\ scans[n].state = "open"
    /\ scans[n].iterCalls < NRows + MaxExtraAdvance
    /\ \E bad \in -1..(scans[n].fdw_state[1].nattrs - 1) :
           rootIterateForeignScan(n, bad)

ReScanForeignScan(n) ==
    /\ scans[n].rescans < MaxReScan
    /\ rootReScanForeignScan(n)

EndForeignScan(n) ==
    /\ scans[n].endCalls < MaxEndCalls
    /\ \E crash \in BOOLEAN : rootEndForeignScan(n, crash)

NextScan ==
    \/ BeginForeignScan("outer")
    \/ IterateForeignScan("outer")
    \/ ReScanForeignScan("outer")
    \/ EndForeignScan("outer")

SpecScan == InitScan /\ [][NextScan]_vars

(***************************************************************************)
(* SpecJoin: the plan is executed on two scan nodes at once, their         *)
(* callbacks interleaved in any order (a join of the table with itself).   *)
(* Each node is begun, read until the call after its last row, and ended   *)
(* once.  An ereport(ERROR) of any callback aborts the statement, so no    *)
(* callback runs after one.                                                *)
(***************************************************************************)
InitJoin == InitScan /\ plan[1].foreigntableid \in {"hits", "extra"}

StatementRunning == \A n \in ScanNodes : scans[n].state # "aborted"

BeginJoin(n) == StatementRunning /\ BeginForeignScan(n)

IterateJoin(n) ==
    /\ StatementRunning
    /\ scans[n].iterCalls <= NRows
    /\ IterateForeignScan(n)

EndJoin(n) ==
    /\ StatementRunning
    /\ scans[n].endCalls = 0
    /\ EndForeignScan(n)

NextJoin ==
    \/ \E n \in ScanNodes : BeginJoin(n)
    \/ \E n \in ScanNodes : IterateJoin(n)
    \/ \E n \in ScanNodes : EndJoin(n)

SpecJoin == InitJoin /\ [][NextJoin]_vars

(***************************************************************************)
(* root_fdw_validator and the statements that create the wrapper, a server *)
(* and a foreign table; the host calls the validator with the options of   *)
(* the statement and the catalog of the object, and rejects an option list *)
(* that names an option twice before it does.                              *)
(***************************************************************************)
ValidatorState ==
    [shard |-> -1, tree |-> NullStr, collection |-> NullStr, nattrs |-> -1,
     status |-> "ok", errmsg |-> ""]

\* one iteration of the foreach of the validator
ValidateOption(acc, def) ==
    IF def.defname = s_shard
    THEN IF acc.shard >= 0
         THEN OptError(acc, "conflicting or redundant options: 'shard'")
         ELSE [acc EXCEPT !.shard = StrToInt(def.arg)]
    ELSE IF def.defname = s_tree
    THEN IF acc.tree # NullStr
         THEN OptError(acc, "conflicting or redundant options: 'tree'")
         ELSE [acc EXCEPT !.tree = def.arg]
    ELSE IF def.defname = s_collection
    THEN IF acc.collection # NullStr
         THEN OptError(acc, "conflicting or redundant options: 'tree'")
         ELSE [acc EXCEPT !.collection = def.arg]
    ELSE IF def.defname = s_nattrs
    THEN IF acc.nattrs >= 0
         THEN OptError(acc, "conflicting or redundant options: 'nattrs'")
         ELSE [acc EXCEPT !.nattrs = StrToInt(def.arg)]
    ELSE acc

RECURSIVE ValidatorLoop(_, _)
ValidatorLoop(acc, options) ==
    IF options = <<>> \/ acc.status # "ok" THEN acc
    ELSE ValidatorLoop(ValidateOption(acc, Head(options)), Tail(options))

\* the tests after the loop, in the order of the code: the message of the
\* first ereport(ERROR) reached, "" when the validator returns
ValidatorChecks(v, catalog) ==
    IF v.status # "ok" THEN v.errmsg
    ELSE IF catalog = "ForeignServerRelationId" /\ v.shard = -1
    THEN "'shard' option is required as a root_fdw server option"
    ELSE IF catalog # "ForeignServerRelationId" /\ v.shard # -1
    THEN "'shard' option can only be used as a root_fdw server option"
    ELSE IF catalog = "ForeignTableRelationId" /\ v.tree = NullStr
    THEN "'tree' option is required as a root_fdw table option"
    ELSE IF catalog # "ForeignTableRelationId" /\ v.tree # NullStr
    THEN "'tree' option can only be used as a root_fdw table option"
    ELSE IF catalog # "ForeignTableRelationId" /\ v.collection # NullStr
    THEN "'collection' option can only be used as a root_fdw table option"
    ELSE IF catalog = "ForeignTableRelationId" /\ v.nattrs = -1
    THEN "'nattrs' option is required as a root_fdw table option"
    ELSE IF catalog # "ForeignTableRelationId" /\ v.nattrs # -1
    THEN "'nattrs' option can only be used as a root_fdw table option"
    ELSE ""

ValidatorResult(options, catalog) ==
    The({ValidatorChecks(v, catalog) :
            v \in {ValidatorLoop(ValidatorState, options)}})

\* the object the statement names must exist before the one that refers to it
CatalogParent(catalog) ==
    IF catalog = "ForeignTableRelationId" THEN <<"ForeignServerRelationId">>
    ELSE IF catalog = "ForeignServerRelationId"
    THEN <<"ForeignDataWrapperRelationId">>
    ELSE <<>>

\* CREATE FOREIGN DATA WRAPPER / SERVER / FOREIGN TABLE ... OPTIONS (options):
\* the object exists only when the validator has returned
root_fdw_validator(options, catalog) ==
    /\ backend = "running"
    /\ created[catalog] = <<>>
    /\ \A c \in Catalogs : <<c>> = CatalogParent(catalog) => created[c] # <<>>
    /\ \E msg \in {ValidatorResult(options, catalog)} :
          IF msg = ""
          THEN /\ created' = [created EXCEPT ![catalog] = <<options>>]
               /\ error' = NoError
          ELSE /\ error' = Error("ERROR", msg)
               /\ UNCHANGED created
    /\ UNCHANGED <<env, ShardPath, root_shard, roots, manifestReads, planCalls,
                   baserel, plan, backend, scans, cursors, resolved, planners>>

\* the merged options rootGetOptions walks for the created table
CreatedOptions ==
    created["ForeignDataWrapperRelationId"][1] \o
    created["ForeignServerRelationId"][1] \o
    created["ForeignTableRelationId"][1]

\* rootGetOptions on the created table, as the first planning call on it runs it
GetOptions ==
    /\ backend = "running"
    /\ created["ForeignTableRelationId"] # <<>>
    /\ resolved = <<>>
    /\ \E opt \in {ResolveOptions(CreatedOptions)} :
          /\ resolved' = <<opt>>
          /\ error' = IF opt.status = "ERROR" THEN Error("ERROR", opt.errmsg)
                      ELSE NoError
          /\ backend' = IF opt.status = "SIGSEGV" THEN "crashed" ELSE backend
    /\ UNCHANGED <<env, ShardPath, root_shard, roots, manifestReads, planCalls,
                   baserel, plan, scans, cursors, created, planners>>

\* an option given or left out, its value one of args
OptionChoices(name, args) == {<<>>} \cup {<<DefElem(name, a)>> : a \in args}

\* the option lists of the statements tried on a catalog; every list names
\* an option at most once
OptionLists(catalog) ==
    LET isServer == catalog = "ForeignServerRelationId"
        isTable  == catalog = "ForeignTableRelationId"
        shards == IF isServer
                  THEN {<<"0">>, <<"9", "9">>, <<"1", "0", "0">>, <<"-", "1">>,
                        <<"-", "5">>}
                  ELSE {<<"0">>, <<"-", "1">>}
        nattrs == IF isTable THEN {<<"1">>, <<"2">>, <<"-", "2">>} ELSE {<<"2">>}
        attrs1 == IF isTable THEN {<<"x", ":", "i", "n", "t">>} ELSE {}
        attrs2 == IF isTable
                  THEN {<<"Y", ":", "f", "l", "o", "a", "t">>, <<"Y">>}
                  ELSE {}
    IN  {sh \o tr \o co \o na \o a1 \o a2 :
            sh \in OptionChoices(s_shard, shards),
            tr \in OptionChoices(s_tree, {s_hits}),
            co \in OptionChoices(s_collection, {s_evt}),
            na \in OptionChoices(s_nattrs, nattrs),
            a1 \in OptionChoices(s_attr_ \o <<"1">>, attrs1),
            a2 \in OptionChoices(s_attr_ \o <<"2">>, attrs2)}

Validate ==
    \E catalog \in Catalogs : \E options \in OptionLists(catalog) :
        root_fdw_validator(options, catalog)

(***************************************************************************)
(* SpecOptions: a session creates the wrapper, a server and a foreign      *)
(* table with options of OptionLists, and the table's options are          *)
(* resolved for planning.                                                  *)
(***************************************************************************)
NextOptions ==
    \/ Validate
    \/ GetOptions

SpecOptions == Init /\ [][NextOptions]_vars

(***************************************************************************)
(* SpecThreads: a host that runs rootGetForeignRelSize in two threads of   *)
(* one process.  root_shard and ShardPath are plain statics and the code   *)
(* takes no lock, so the steps of the two calls interleave between the     *)
(* statements that read or write them.                                     *)
(***************************************************************************)
\* lines 540-543 in thread p, planning table t: rootGetOptions, then
\* get_shard_contents
PlannerStart(p, t, fileOk) ==
    LET opt  == rootGetOptions(t)
        path == IF ShardPath = NullStr THEN env ELSE ShardPath
    IN  /\ backend = "running"
        /\ planners[p].pc \in {"idle", "done", "failed"}
        /\ planCalls < MaxPlanCalls
        /\ planCalls' = planCalls + 1
        /\ UNCHANGED <<env, root_shard, roots, baserel, plan, scans, cursors,
                       created, resolved>>
        /\ IF opt.status = "SIGSEGV"
           THEN /\ backend' = "crashed"
                /\ UNCHANGED <<ShardPath, manifestReads, error, planners>>
           ELSE IF opt.status = "ERROR"
           THEN /\ error' = Error("ERROR", opt.errmsg)
                /\ planners' = [planners EXCEPT ![p] =
                                   [IdlePlanner EXCEPT !.pc = "failed", !.table = t]]
                /\ UNCHANGED <<ShardPath, manifestReads, backend>>
           ELSE IF path = NullStr
           THEN /\ error' = Error("ERROR", "SHARDS_PATH environment variable required")
                /\ planners' = [planners EXCEPT ![p] =
                                   [IdlePlanner EXCEPT !.pc = "failed", !.table = t]]
                /\ UNCHANGED <<ShardPath, manifestReads, backend>>
           ELSE IF ~fileOk
           THEN /\ error' = Error("FATAL", "could not open file")
                /\ backend' = "exited"
                /\ ShardPath' = path
                /\ UNCHANGED <<manifestReads, planners>>
           ELSE /\ ShardPath' = path
                /\ manifestReads' = [manifestReads EXCEPT ![opt.shard] = @ + 1]
                /\ planners' = [planners EXCEPT ![p] =
                                   [pc |-> "test", table |-> t,
                                    shard |-> opt.shard, root |-> NULL]]
                /\ error' = NoError
                /\ UNCHANGED backend

\* line 546 in thread p: if (!root_shard[shard])
PlannerTest(p) ==
    /\ backend = "running"
    /\ planners[p].pc = "test"
    /\ planners' = [planners EXCEPT ![p].pc =
                       IF ShardCached(planners[p].shard) THEN "table" ELSE "init"]
    /\ UNCHANGED <<env, ShardPath, root_shard, roots, manifestReads, planCalls,
                   baserel, plan, error, backend, scans, cursors, created,
                   resolved>>

\* lines 548-552 in thread p: root_shard[shard] = init_root(fnames, n)
PlannerInit(p, initOk) ==
    LET shard  == planners[p].shard
        fnames == get_shard_contents(shard)
    IN  /\ backend = "running"
        /\ planners[p].pc = "init"
        /\ IF initOk
           THEN /\ roots' = Append(roots, [shard |-> shard, fnames |-> fnames.fnames,
                                           n |-> fnames.n])
                /\ root_shard' = [root_shard EXCEPT ![shard] = Len(roots) + 1]
                /\ planners' = [planners EXCEPT ![p].pc = "table"]
                /\ error' = NoError
           ELSE /\ root_shard' = [root_shard EXCEPT ![shard] = NULL]
                /\ planners' = [planners EXCEPT ![p].pc = "failed"]
                /\ error' = Error("ERROR", "failed to initialize ROOT's shard")
                /\ UNCHANGED roots
        /\ UNCHANGED <<env, ShardPath, manifestReads, planCalls, baserel, plan,
                       backend, scans, cursors, created, resolved>>

\* line 561 in thread p: get_root_table(root_shard[shard], tree, is_collection)
PlannerTable(p, found) ==
    /\ backend = "running"
    /\ planners[p].pc = "table"
    /\ planners' = [planners EXCEPT ![p] =
                       [@ EXCEPT !.pc = IF found THEN "done" ELSE "failed",
                                 !.root = root_shard[planners[p].shard]]]
    /\ error' = IF found THEN NoError
                ELSE Error("ERROR", "'name' option refers to an unknown table")
    /\ UNCHANGED <<env, ShardPath, root_shard, roots, manifestReads, planCalls,
                   baserel, plan, backend, scans, cursors, created, resolved>>

NextThreads ==
    \/ \E p \in Planners : \E t \in TableIds : \E fileOk \in BOOLEAN :
          PlannerStart(p, t, fileOk)
    \/ \E p \in Planners : PlannerTest(p)
    \/ \E p \in Planners : \E initOk \in BOOLEAN : PlannerInit(p, initOk)
    \/ \E p \in Planners : \E found \in BOOLEAN : PlannerTable(p, found)

SpecThreads == Init /\ [][NextThreads]_vars

(***************************************************************************)
(* Properties of the shard registry (Spec).                                *)
(***************************************************************************)
\* number of Root objects init_root has returned for a shard
InitCount(shard) == Cardinality({k \in 1..Len(roots) : roots[k].shard = shard})

\* C1 (as claimed): the manifest reader runs at most once per shard id per
\* process: no shard's manifest is read a second time by a later planning call.
C1_ManifestReadAtMostOnce == \A shard \in ShardIds : manifestReads[shard] <= 1

\* C2: for every shard, init_root succeeds at most once, and once
\* root_shard[shard] holds a handle no step replaces, resets or destroys it:
\* a later planning call on the shard resolves its table through that handle.
C2_HandleNeverReplaced ==
    [][\A shard \in ShardIds :
          /\ InitCount(shard)' <= 1
          /\ root_shard[shard] # NULL =>
                /\ root_shard'[shard] = root_shard[shard]
                /\ (/\ planCalls' # planCalls
                    /\ baserel' # <<>>
                    /\ baserel'[1].fdw_private.shard = shard)
                   => baserel'[1].fdw_private.root_table.root = root_shard[shard]]_vars

\* C2 witness: a planning call has resolved a shard whose handle was cached by
\* an earlier call and has used that handle.
C2_Witness ==
    /\ baserel # <<>>
    /\ manifestReads[baserel[1].fdw_private.shard] >= 2
    /\ baserel[1].fdw_private.root_table.root =
           root_shard[baserel[1].fdw_private.shard]

(***************************************************************************)
(* Properties of projection planning (SpecQuery).                          *)
(***************************************************************************)
\* the relation being planned has its path, so collect_attributes succeeded
Planned == baserel # <<>> /\ baserel[1].pathlist # <<>>

PlannedAttrs == baserel[1].pathlist[1].fdw_private[2]

PlannedTupdesc == ForeignTables[baserel[1].foreigntableid].tupdesc

\* C9: the projection list is in strictly increasing attribute-number order;
\* every tuplePosition lies in [0, tupleWidth), is unique, and is the
\* attribute number minus one of the host column the entry was matched to.
C9_ProjectionOrdered ==
    Planned =>
        \A k \in 1..Len(PlannedAttrs) :
            /\ PlannedAttrs[k].pos \in 0..(Len(PlannedTupdesc) - 1)
            /\ StrCaseEq(PlannedTupdesc[PlannedAttrs[k].pos + 1].attname,
                         PlannedAttrs[k].attr.attname)
            /\ PlannedTupdesc[PlannedAttrs[k].pos + 1].attnum - 1 = PlannedAttrs[k].pos
            /\ \A j \in 1..Len(PlannedAttrs) :
                   j < k => PlannedAttrs[j].pos < PlannedAttrs[k].pos

\* C9 witness: a projection of two columns with a dropped column between them.
C9_Witness ==
    /\ Planned
    /\ Len(PlannedAttrs) = 2
    /\ PlannedAttrs[2].pos = PlannedAttrs[1].pos + 2
    /\ PlannedTupdesc[PlannedAttrs[1].pos + 2].attisdropped

\* the query references column attno in its target list or a restriction clause
Referenced(rel, attno) ==
    \/ attno \in rel.reltargetlist
    \/ \E k \in 1..Len(rel.baserestrictinfo) : attno \in rel.baserestrictinfo[k].vars

\* C10: when projection planning succeeds, a host column has exactly one
\* projection entry if it is not dropped and the query has a whole-row
\* reference or references the column, and has no entry otherwise.
C10_ProjectionExact ==
    Planned =>
        \A i \in 1..Len(PlannedTupdesc) :
            Cardinality({k \in 1..Len(PlannedAttrs) : PlannedAttrs[k].pos = i - 1}) =
                IF /\ ~PlannedTupdesc[i].attisdropped
                   /\ (Referenced(baserel[1], 0) \/ Referenced(baserel[1], i))
                THEN 1 ELSE 0

\* C10 witness: a column fetched only because a restriction clause references
\* it, next to a column of the table that is not fetched.
C10_Witness ==
    /\ Planned
    /\ \E k \in 1..Len(PlannedAttrs) :
           /\ (PlannedAttrs[k].pos + 1) \notin baserel[1].reltargetlist
           /\ Referenced(baserel[1], PlannedAttrs[k].pos + 1)
    /\ \E i \in 1..Len(PlannedTupdesc) :
           /\ ~PlannedTupdesc[i].attisdropped
           /\ \A k \in 1..Len(PlannedAttrs) : PlannedAttrs[k].pos # i - 1

(***************************************************************************)
(* Properties of the scan callbacks (SpecScan).                            *)
(***************************************************************************)
\* the scan node has returned a row: its slot holds a stored tuple
RowReturned(n) == scans[n].state \in {"open", "closed"} /\ ~scans[n].tts_isempty

FetchPositions(n) ==
    {scans[n].fdw_state[1].pos[i] : i \in 0..(scans[n].fdw_state[1].nattrs - 1)}

\* C3 (as claimed): a scan that ended in an error after init_root_cursor gave
\* it a cursor has released that cursor with fini_root_cursor.
C3_CursorReleasedOnError ==
    \A n \in ScanNodes :
        scans[n].state = "aborted" /\ scans[n].root_cursor # NULL
            => cursors[scans[n].root_cursor].finis >= 1

\* C4 (as claimed): after rootEndForeignScan has been called twice on a scan
\* the backend has not crashed and the cursor was released at most once.
C4_CloseTwiceReleasesOnce ==
    \A n \in ScanNodes :
        scans[n].endCalls >= 2
            => backend # "crashed" /\ cursors[scans[n].root_cursor].finis <= 1

\* C5 (as claimed): after a rescan of an open scan the Advance calls yield the
\* table's rows again from the first: the k-th rootIterateForeignScan after
\* rootReScanForeignScan returns row k, for k up to the number of rows.
C5_RescanRestarts ==
    \A n \in ScanNodes :
        /\ scans[n].state = "open"
        /\ scans[n].rescans >= 1
        /\ scans[n].sinceReScan \in 1..NRows
        => ~scans[n].tts_isempty /\ scans[n].storedRow = scans[n].sinceReScan

\* C6 (as claimed): in every returned row the positions marked non-null are
\* exactly the fetch positions; every other position is marked null.
C6_OnlyProjectedNonNull ==
    \A n \in ScanNodes :
        RowReturned(n) =>
            \A p \in DOMAIN scans[n].tts_isnull :
                scans[n].tts_isnull[p] = (p \notin FetchPositions(n))

\* the schema entry collect_attributes matches to a host column: the first
\* entry of the table's schema with the column's name, case ignored
SchemaEntryOf(t, column) ==
    LET schema == TableOptions[t].schema
        k == CHOOSE j \in 1..Len(schema) :
                /\ StrCaseEq(schema[j].attname, column.attname)
                /\ \A h \in 1..(j - 1) : ~StrCaseEq(schema[h].attname, column.attname)
    IN  schema[k]

\* C7: in every returned row, for every fetch index i, the value at output
\* position pos[i] is the typed value of the cursor's attribute i on the
\* cursor's row, and attribute i was registered with the name and type of the
\* schema entry matched to the host column at that position.
C7_ValuesAtTuplePositions ==
    \A n \in ScanNodes :
        RowReturned(n) =>
            LET festate == scans[n].fdw_state[1]
                cursor  == cursors[festate.root_cursor]
                tupdesc == ForeignTables[plan[1].foreigntableid].tupdesc
            IN  \A i \in 0..(festate.nattrs - 1) :
                    /\ cursor.attrs[i] =
                         <<SchemaEntryOf(plan[1].foreigntableid,
                                         tupdesc[festate.pos[i] + 1])>>
                    /\ scans[n].tts_values[festate.pos[i]] =
                         TypedDatum(cursor.attrs[i][1].atttype,
                                    CellValue(cursor.attrs[i][1].attname, cursor.row))
                    /\ ~scans[n].tts_isnull[festate.pos[i]]

\* C7 witness: a row was returned whose second fetched value went to a tuple
\* position other than its fetch index.
C7_Witness ==
    \E n \in ScanNodes :
        /\ RowReturned(n)
        /\ scans[n].fdw_state[1].nattrs >= 2
        /\ scans[n].fdw_state[1].pos[1] # 1

\* C8: on a scan that was opened and never rescanned, every
\* rootIterateForeignScan has advanced the cursor exactly once; the k-th call
\* returns row k while k is at most the number of rows, and an empty slot
\* with nothing stored once the cursor has no more rows.
C8_RowsInOrder ==
    \A n \in ScanNodes :
        scans[n].state \in {"open", "closed"} /\ scans[n].rescans = 0 =>
            /\ cursors[scans[n].root_cursor].advances = scans[n].iterCalls
            /\ scans[n].iterCalls \in 1..NRows =>
                   ~scans[n].tts_isempty /\ scans[n].storedRow = scans[n].iterCalls
            /\ scans[n].iterCalls > NRows =>
                   scans[n].tts_isempty /\ scans[n].storedRow = 0

\* C8 witness: every row was returned and a further call found the cursor
\* exhausted.
C8_Witness ==
    \E n \in ScanNodes :
        /\ scans[n].state = "open"
        /\ scans[n].rescans = 0
        /\ scans[n].iterCalls = NRows + 1
        /\ scans[n].tts_isempty

(***************************************************************************)
(* Properties of failed planning (SpecQuery, Spec).                        *)
(***************************************************************************)
\* the schema of the relation has no entry named like the column, case ignored
Unmatched(rel, column) ==
    \A k \in 1..Len(rel.fdw_private.schema) :
        ~StrCaseEq(rel.fdw_private.schema[k].attname, column.attname)

\* a column of the relation's table that is not dropped, that the query
\* references (by itself or through the whole row) and that has no schema entry
HasMissingColumn(rel) ==
    \E i \in 1..Len(ForeignTables[rel.foreigntableid].tupdesc) :
        LET column == ForeignTables[rel.foreigntableid].tupdesc[i]
        IN  /\ ~column.attisdropped
            /\ Referenced(rel, 0) \/ Referenced(rel, i)
            /\ Unmatched(rel, column)

\* C11: when a referenced, non-dropped host column has no schema entry of its
\* name (case ignored), rootGetForeignPaths fails with an error and leaves
\* neither a projection nor a scan path; no relation ever carries a path
\* whose projection omits such a column.
C11_MissingColumnFails ==
    [][/\ (/\ baserel # <<>>
           /\ baserel[1].pathlist = <<>>
           /\ planCalls' = planCalls
           /\ HasMissingColumn(baserel[1]))
          => /\ error'.elevel = "ERROR"
             /\ baserel' = <<>>
             /\ plan' = <<>>
       /\ (baserel' # <<>> /\ baserel'[1].pathlist # <<>>)
          => ~HasMissingColumn(baserel'[1])]_vars

\* C11 witness: planning of a query on a column without schema entry has
\* failed in collect_attributes.
C11_Witness ==
    /\ error = Error("ERROR", "Failed to retrieve ROOT attribute")
    /\ baserel = <<>>
    /\ plan = <<>>

\* C15 (as claimed): a missing SHARDS_PATH and a manifest that cannot be
\* opened are both reported at FATAL severity and end the backend.
C15_EnvironmentErrorsFatal ==
    error.msg \in {"SHARDS_PATH environment variable required",
                   "could not open file"}
        => error.elevel = "FATAL" /\ backend = "exited"

(***************************************************************************)
(* Properties of option validation and resolution (SpecOptions).           *)
(***************************************************************************)
\* number of attr_ declarations in an option list
AttrDeclarations(options) ==
    Cardinality({k \in 1..Len(options) : StrNEq(options[k].defname, s_attr_)})

\* the option list gives option name, with a value that converts to v
HasOptionValue(options, name, v) ==
    \E k \in 1..Len(options) :
        options[k].defname = name /\ StrToInt(options[k].arg) = v

HasOption(options, name) ==
    \E k \in 1..Len(options) : options[k].defname = name

\* C12: when rootGetOptions returns, the schema has nattrs + 1 entries, or
\* nattrs + 2 for a collection: the declared attributes, then the tree
\* identifier, then (for a collection) the collection identifier; and
\* resolution of options whose number of attr_ declarations differs from
\* nattrs fails with an error.
C12_SchemaLength ==
    resolved # <<>> =>
        LET r == resolved[1]
            n == Len(r.schema)
        IN  /\ r.status = "ok" =>
                /\ n = r.nattrs + 1 + (IF r.is_collection THEN 1 ELSE 0)
                /\ HasOptionValue(CreatedOptions, s_nattrs, r.nattrs)
                /\ r.is_collection = HasOption(CreatedOptions, s_collection)
                /\ r.schema[r.nattrs + 1] =
                       RootAttr(WithIdSuffix(r.tree), "RootTreeId")
                /\ r.is_collection =>
                       r.schema[n] = RootAttr(WithIdSuffix(s_evt), "RootCollectionId")
                /\ \A k \in 1..r.nattrs :
                       r.schema[k].atttype \notin {"RootTreeId", "RootCollectionId"}
            /\ ~HasOptionValue(CreatedOptions, s_nattrs,
                               AttrDeclarations(CreatedOptions))
                  => r.status = "ERROR" /\ error.elevel = "ERROR"

\* C12 witness: the options of a collection with two declared attributes
\* were resolved into a schema of four entries.
C12_Witness ==
    /\ resolved # <<>>
    /\ resolved[1].status = "ok"
    /\ resolved[1].is_collection
    /\ resolved[1].nattrs = 2
    /\ Len(resolved[1].schema) = 4

\* C13 (as claimed): no object is created with a shard option equal to
\* MAXSHARDS: the validator rejects the statement.
C13_MaxShardRejectedAtCreation ==
    \A c \in Catalogs :
        created[c] # <<>> => ~HasOptionValue(created[c][1], s_shard, MAXSHARDS)

\* C14 (as claimed): every created object has passed the scope rules: a
\* server has a shard option and its value is not negative, the wrapper and
\* a table have none; a table has a tree option, the wrapper and a server
\* have none.
C14_ValidatorScopes ==
    \A c \in Catalogs :
        created[c] # <<>> =>
            LET options == created[c][1]
            IN  /\ HasOption(options, s_shard) = (c = "ForeignServerRelationId")
                /\ HasOption(options, s_tree) = (c = "ForeignTableRelationId")
                /\ \A k \in 1..Len(options) :
                       options[k].defname = s_shard => StrToInt(options[k].arg) >= 0

(***************************************************************************)
(* Properties of two scans of one plan (SpecJoin).                         *)
(***************************************************************************)
\* C16: two scans of one plan hold different cursors; a callback on one scan
\* node leaves the other node's execution state (its cursor handle, its
\* fetch positions, its slot) and the other node's cursor as they were; and
\* however the calls interleave, every scan has advanced its own cursor once
\* per rootIterateForeignScan and its k-th call has returned row k.
C16_ScansIndependent ==
    [][\A n \in ScanNodes : \A m \in ScanNodes \ {n} :
          /\ (scans'[n].root_cursor # NULL /\ scans'[m].root_cursor # NULL)
                => scans'[n].root_cursor # scans'[m].root_cursor
          /\ scans'[n] # scans[n] =>
                /\ scans'[m] = scans[m]
                /\ scans[m].root_cursor # NULL =>
                      cursors'[scans[m].root_cursor] = cursors[scans[m].root_cursor]
          /\ scans'[n].state \in {"open", "closed"} =>
                /\ cursors'[scans'[n].root_cursor].advances = scans'[n].iterCalls
                /\ scans'[n].iterCalls \in 1..NRows =>
                      /\ ~scans'[n].tts_isempty
                      /\ scans'[n].storedRow = scans'[n].iterCalls
                /\ scans'[n].iterCalls > NRows => scans'[n].tts_isempty]_vars

\* C16 witness: one scan was ended after its first row while the other scan,
\* still open, has returned its second row.
C16_Witness ==
    /\ scans["outer"].state = "closed"
    /\ scans["outer"].storedRow = 1
    /\ scans["inner"].state = "open"
    /\ scans["inner"].storedRow = 2
    /\ scans["inner"].fdw_state[1].nattrs >= 1

(***************************************************************************)
(* Properties of planning in two threads (SpecThreads).                    *)
(***************************************************************************)
\* C17 (as claimed): when two planning calls resolve a shard with their steps
\* interleaved, init_root has run at most once for the shard and both calls
\* have resolved their table through the same Root.
C17_ConcurrentInitOnce ==
    /\ \A shard \in ShardIds : InitCount(shard) <= 1
    /\ \A p \in Planners : \A q \in Planners :
          /\ planners[p].pc = "done"
          /\ planners[q].pc = "done"
          /\ planners[p].shard = planners[q].shard
          => planners[p].root = planners[q].root

(***************************************************************************)
(* Properties of size and cost estimation (SpecEstimate).                  *)
(***************************************************************************)
\* ceil(a / b) for a >= 0 and b > 0: the least k with k * b >= a
Ceiling(a, b) ==
    CHOOSE k \in 0..((a \div b) + 1) :
        /\ k * b >= a
        /\ k = 0 \/ (k - 1) * b < a

\* C18: for every row count the external table reports, 0 included, the
\* page estimate stored by estimate_size is max(1, ceil(rows * 100 / BLCKSZ)).
C18_PageEstimate ==
    baserel # <<>> =>
        LET rows  == baserel[1].fdw_private.ntuples
            pages == Ceiling(rows * 100, BLCKSZ)
        IN  baserel[1].fdw_private.pages = IF pages > 1 THEN pages ELSE 1

\* C18 witness: a row count whose bytes exceed one block by less than a block
\* was estimated at two pages.
C18_Witness ==
    /\ baserel # <<>>
    /\ baserel[1].fdw_private.ntuples * 100 > BLCKSZ
    /\ baserel[1].fdw_private.ntuples * 100 < BLCKSZ + 100
    /\ baserel[1].fdw_private.pages = 2

\* C19: the path's startup cost is the startup cost of the restriction
\* clauses; its total cost is the startup cost plus seq_page_cost per
\* estimated page plus (cpu_tuple_cost * 1.5 + the clauses' per-tuple cost)
\* per row of the unfiltered row count, pages and row count being the ones
\* estimate_size stored for the relation; so the total cost is at least the
\* startup cost.
C19_PathCosts ==
    Planned =>
        LET rel  == baserel[1]
            path == rel.pathlist[1]
            cost == RestrictCost(rel.baserestrictinfo, 1)
        IN  /\ path.startup_cost = cost.startup
            /\ path.total_cost =
                   path.startup_cost + SeqPageCost * rel.fdw_private.pages +
                   (CpuTupleCost15 + cost.per_tuple) * rel.fdw_private.ntuples
            /\ path.total_cost >= path.startup_cost

\* C19 witness: a path for two clauses with a startup cost, whose filtered
\* row estimate is below the row count the costs were computed from.
C19_Witness ==
    /\ Planned
    /\ Len(baserel[1].baserestrictinfo) = 2
    /\ baserel[1].pathlist[1].startup_cost > 0
    /\ baserel[1].rows < baserel[1].fdw_private.ntuples

(***************************************************************************)
(* Properties of the plan during execution (SpecScan).                     *)
(***************************************************************************)
\* C20: no execution callback modifies the ForeignScan node built by
\* planning: over every rootBeginForeignScan, rootIterateForeignScan,
\* rootReScanForeignScan and rootEndForeignScan step, failed ones included,
\* the root_table and the list of QueryAttr of plan->fdw_private stay as
\* they were.
C20_PlanImmutable ==
    [][/\ plan' # <<>>
       /\ plan'[1].foreigntableid = plan[1].foreigntableid
       /\ plan'[1].fdw_private[1] = plan[1].fdw_private[1]
       /\ Len(plan'[1].fdw_private[2]) = Len(plan[1].fdw_private[2])
       /\ \A k \in 1..Len(plan[1].fdw_private[2]) :
              plan'[1].fdw_private[2][k] = plan[1].fdw_private[2][k]]_vars

\* C20 witness: a plan with a projection was begun, advanced, rescanned
\* and ended.
C20_Witness ==
    /\ plan # <<>>
    /\ Len(plan[1].fdw_private[2]) >= 1
    /\ \E n \in ScanNodes :
          /\ scans[n].state = "closed"
          /\ scans[n].iterCalls >= 1
          /\ scans[n].rescans >= 1

(***************************************************************************)
(* Properties of the execution state (SpecScan).                           *)
(***************************************************************************)
\* C21: from a successful rootBeginForeignScan until rootEndForeignScan,
\* festate->nattrs is the length of the plan's projection and of pos; the
\* cursor was created with that many attributes and has each index
\* 0..nattrs-1 registered exactly once, with the attribute of the projection
\* entry at that place; pos[i] is the pos of the i-th projection entry and an
\* index into tts_values and tts_isnull.
C21_OpenInvariant ==
    \A n \in ScanNodes :
        scans[n].state = "open" =>
            LET festate == scans[n].fdw_state[1]
                cursor  == cursors[festate.root_cursor]
            IN  /\ festate.nattrs = Len(PlanAttrs)
                /\ DOMAIN festate.pos = 0..(festate.nattrs - 1)
                /\ cursor.nattrs = festate.nattrs
                /\ DOMAIN cursor.attrs = 0..(festate.nattrs - 1)
                /\ \A i \in 0..(festate.nattrs - 1) :
                      /\ cursor.attrs[i] = <<PlanAttrs[i + 1].attr>>
                      /\ festate.pos[i] = PlanAttrs[i + 1].pos
                      /\ festate.pos[i] \in DOMAIN scans[n].tts_values
                      /\ festate.pos[i] \in DOMAIN scans[n].tts_isnull

\* C21 witness: a scan with two projected attributes is still open after a
\* row was read and the scan was rescanned.
C21_Witness ==
    \E n \in ScanNodes :
        /\ scans[n].state = "open"
        /\ scans[n].fdw_state[1].nattrs = 2
        /\ scans[n].iterCalls >= 1
        /\ scans[n].rescans >= 1

ServerShard(t) == StrToInt(ServerOptions[ForeignTables[t].serverid][1].arg)

\* C23: option resolution fails for every table whose shard id is outside
\* [0, MAXSHARDS); a planning call that fails so has not entered
\* get_shard_contents (ShardPath and the manifests are untouched) and has not
\* touched root_shard; no planning call indexes root_shard out of range; and
\* a relation that was sized has a shard id in [0, MAXSHARDS).
C23_ShardInRange ==
    [][planCalls' # planCalls =>
          /\ \A t \in TableIds :
                ServerShard(t) \notin ShardIds => rootGetOptions(t).status = "ERROR"
          /\ backend' \in {"running", "exited"}
          /\ error'.msg = "'shard' option refers to an unknown shard" =>
                /\ ShardPath' = ShardPath
                /\ manifestReads' = manifestReads
                /\ root_shard' = root_shard
                /\ roots' = roots
                /\ baserel' = <<>>
          /\ baserel' # <<>> => baserel'[1].fdw_private.shard \in ShardIds]_vars

\* C23 witness: the first planning call of a backend was on a table with a
\* shard id out of range and was rejected before SHARDS_PATH was read.
C23_Witness ==
    /\ error = Error("ERROR", "'shard' option refers to an unknown shard")
    /\ planCalls = 1
    /\ ShardPath = NullStr
    /\ env # NullStr
    /\ \A shard \in ShardIds : manifestReads[shard] = 0 /\ root_shard[shard] = NULL

(***************************************************************************)
(* Properties of root_shard after a failed planning call (Spec).           *)
(***************************************************************************)
\* C24: over every planning call, the shard planned being the one whose
\* manifest the call has read: when init_root fails, every entry of
\* root_shard is as before, the entry of the shard planned is NULL and no
\* Root was added; when the table is not found, the entry of the shard
\* planned holds a Root, the one it held before if it held one, and every
\* other entry is as before; and a call that finds the entry NULL and gets
\* past init_root has initialized a new Root for it.
C24_FailedPlanningCache ==
    [][planCalls' # planCalls =>
          \A shard \in ShardIds :
              LET planned == manifestReads'[shard] # manifestReads[shard]
              IN  /\ error'.msg = "failed to initialize ROOT's shard" =>
                        /\ root_shard'[shard] = root_shard[shard]
                        /\ planned => root_shard'[shard] = NULL
                        /\ roots' = roots
                  /\ error'.msg = "'name' option refers to an unknown table" =>
                        /\ planned => root_shard'[shard] # NULL
                        /\ root_shard[shard] # NULL =>
                              root_shard'[shard] = root_shard[shard]
                        /\ ~planned => root_shard'[shard] = root_shard[shard]
                  /\ (/\ planned
                      /\ root_shard[shard] = NULL
                      /\ error'.msg # "failed to initialize ROOT's shard") =>
                        /\ root_shard'[shard] = Len(roots) + 1
                        /\ Len(roots') = Len(roots) + 1
                        /\ roots'[Len(roots')].shard = shard]_vars

\* C24 witness: init_root has failed for a shard whose entry is still NULL
\* while another shard, resolved before, keeps its Root.
C24_Witness ==
    /\ error = Error("ERROR", "failed to initialize ROOT's shard")
    /\ \E shard \in ShardIds : \E other \in ShardIds \ {shard} :
          /\ manifestReads[shard] >= 1
          /\ root_shard[shard] = NULL
          /\ root_shard[other] # NULL

====
